---- MODULE Spec2Model ----
(***************************************************************************)
(* GDPyS entity resolution: the Song and Level objects of objects/song.py  *)
(* and objects/level.py, with the collaborators they call (the process-    *)
(* wide caches, the SQL adapter, the Boomlings song API) modelled at their *)
(* boundary.  Every action is one whole call of a method; the variable     *)
(* `call` records what that call was given, what it did to its             *)
(* collaborators (`log`, in program order), the state it started from      *)
(* (`pre`) and what it returned, and `prev` keeps the call before it.      *)
(***************************************************************************)
EXTENDS Integers, Sequences, FiniteSets, TLC

VARIABLES
    song_cache,   \* glob.song_cache: song id -> Song
    song_db,      \* the rows of the `songs` table, in insertion order
    level_cache,  \* glob.level_cache: key -> index of a Level object in heap
    level_db,     \* the rows of the `levels` table, in insertion order
    heap,         \* the Level objects alive in the process
    files,        \* the payload files of conf.dir_levels: level id -> contents
    disk_ok,      \* whether conf.dir_levels can be reached
    tasks,        \* the asynchronous tasks in flight, each at an await
    written,      \* per Level object, the contents of its last write call
    call,         \* the last completed call
    prev          \* the call completed before it

vars ==
    <<song_cache, song_db, level_cache, level_db, heap, files, disk_ok, tasks,
      written, call, prev>>

\* ------------------------------------------------------------------ bounds

\* Song ids requested range over 0..MaxSongId (0 is the falsy id).
MaxSongId == 2
\* Level objects constructed in one run.
MaxLevels == 1
\* Level ids requested range over 0..MaxLevelId.
MaxLevelId == 1
\* How many of PlainKeys a caller of Level.update may pass.
MaxPlainTried == 1
\* The values a caller of Level.update passes are made from 0..MaxVal.
MaxVal == 1
\* Rows of the `songs` table beyond which no further resolution is started
\* when the catalog answers with records of other ids.
MaxSongRows == 2

Titles == {"a", "b"}

\* ------------------------------------------------------------ Song object

\* Song.__init__: the placeholder attributes.
EmptySong ==
    [id |-> -1, title |-> "", author_id |-> 0, author_name |-> "",
     size |-> 0, author_yt |-> "", url |-> ""]

\* A row of `songs` as a store can hold it (id, title, author_id, author_name,
\* size, author_yt, download).
SongRow(id, title) ==
    [id |-> id, title |-> title, author_id |-> 7, author_name |-> "auth",
     size |-> 3, author_yt |-> "yt", url |-> "url"]

\* ------------------------------------------------- strings that are numbers

DigitStr == <<"1", "2", "3", "4", "5", "6", "7", "8", "9", "10">>

\* str(n) for the numbers the model writes into a response body.
IntStr(n) == IF n = -1 THEN "-1" ELSE IF n = 0 THEN "0" ELSE DigitStr[n]

NumRange == -1 .. Len(DigitStr)

\* Whether int(s) succeeds.
IsNumStr(s) == \E n \in NumRange : IntStr(n) = s

\* int(s) / float(s) of a numeric string.
StrInt(s) == CHOOSE n \in NumRange : IntStr(n) = s

\* ------------------------------------------------------ Boomlings response
\* A response body is the sequence of its "~|~"-separated tokens; the empty
\* body is <<>>, an error code such as -1 is the one-token body <<"-1">>.

WellFormed(id, title) ==
    <<"1", IntStr(id), "2", title, "3", "7", "4", "auth",
      "5", "3", "7", "yt", "10", "url">>

KeyIncomplete(id, title) == <<"1", IntStr(id), "2", title>>

\* What post_request may answer for a song id: nothing, the error code -1,
\* and for an id of the catalog (they start at 1) the song's record, whole
\* or cut short.
Bodies(id) ==
    {<<>>, <<"-1">>}
        \cup (IF id < 1 THEN {}
              ELSE {WellFormed(id, t) : t \in Titles}
                      \cup {KeyIncomplete(id, t) : t \in Titles})

\* helpers.common.is_numeric: the whole body is one number.
is_numeric(body) == Len(body) = 1 /\ IsNumStr(body[1])

\* utils.gdform.parse_to_dict: key, value, key, value, ... -> {int(key): value}.
parse_to_dict(body) ==
    LET n    == Len(body) \div 2
        keys == {StrInt(body[2 * i - 1]) : i \in 1 .. n}
    IN  [k \in keys |->
            body[2 * (CHOOSE i \in 1 .. n : StrInt(body[2 * i - 1]) = k)]]

\* ------------------------------------------------------------- collaborators

\* glob.song_cache.get / glob.level_cache.get: the entry or None.
CacheHas(c, key) == key \in DOMAIN c

\* glob.song_cache.cache / glob.level_cache.cache: store or overwrite.
CachePut(c, key, val) ==
    [k \in DOMAIN c \cup {key} |-> IF k = key THEN val ELSE c[k]]

\* glob.sql.fetchone("... WHERE id = %s LIMIT 1"): the first row with the id.
SqlHas(db, id) == \E i \in 1 .. Len(db) : db[i].id = id

SqlFetchOne(db, id) ==
    db[CHOOSE i \in 1 .. Len(db) :
          /\ db[i].id = id
          /\ \A j \in 1 .. i - 1 : db[j].id # id]

\* The id an auto-increment column gives the next row.
NextRowId(db) ==
    IF db = <<>> THEN 1
    ELSE 1 + (CHOOSE m \in {db[i].id : i \in 1 .. Len(db)} :
                 \A i \in 1 .. Len(db) : db[i].id <= m)

\* glob.sql.execute("INSERT ..."): appends the row and returns cur.lastrowid;
\* an id of None is replaced by the auto-increment value.
SqlInsert(db, row, idIsNone) ==
    LET id == IF idIsNone THEN NextRowId(db) ELSE row.id
    IN  [db |-> Append(db, [row EXCEPT !.id = id]), lastrowid |-> id]

\* ------------------------------------------------------- results of a call

NoResult ==
    [kind |-> "none", song |-> EmptySong, ref |-> 0, exc |-> "", str |-> ""]
SongResult(s) == [NoResult EXCEPT !.kind = "song", !.song = s]
Raised(exc) == [NoResult EXCEPT !.kind = "raise", !.exc = exc]
\* A Level object of the heap.
LevelResult(i) == [NoResult EXCEPT !.kind = "level", !.ref = i]
\* A coroutine object that was created and not awaited.
CoroutineResult == [NoResult EXCEPT !.kind = "coroutine"]
\* A str.
StrResult(s) == [NoResult EXCEPT !.kind = "str", !.str = s]

\* ------------------------------------------------------------- Song methods

\* Song.from_sql: [found, song].
SongFromSql(db, song_id) ==
    IF SqlHas(db, song_id)
    THEN [found |-> TRUE, song |-> SqlFetchOne(db, song_id)]
    ELSE [found |-> FALSE, song |-> EmptySong]

RequiredKeys == <<1, 2, 3, 4, 5, 7, 10>>

\* Song.from_boomlings, after the request was answered with `body`: a Song,
\* None, or the exception the attribute assignments raise.
SongFromBoomlings(body) ==
    IF is_numeric(body) \/ body = <<>>
    THEN NoResult
    ELSE
        LET d       == parse_to_dict(body)
            missing == {i \in 1 .. Len(RequiredKeys) :
                            RequiredKeys[i] \notin DOMAIN d}
            badint  == {i \in {1, 3, 5} :
                            /\ RequiredKeys[i] \in DOMAIN d
                            /\ ~IsNumStr(d[RequiredKeys[i]])}
            fails   == missing \cup badint
            first   == CHOOSE i \in fails : \A j \in fails : i <= j
        IN  IF fails # {}
            THEN Raised(IF first \in missing THEN "KeyError" ELSE "ValueError")
            ELSE SongResult(
                    [id |-> StrInt(d[1]), title |-> d[2],
                     author_id |-> StrInt(d[3]), author_name |-> d[4],
                     size |-> StrInt(d[5]), author_yt |-> d[7], url |-> d[10]])

\* Song.insert: the rows after it and the song with its id overwritten.
SongInsert(db, s) ==
    LET r == SqlInsert(db, s, s.id = -1)
    IN  [db |-> r.db, song |-> [s EXCEPT !.id = r.lastrowid]]

\* What a run of Song.from_id leaves behind.
Outcome(c, db, result, log) ==
    [cache |-> c, db |-> db, result |-> result, log |-> log]

\* A variant of the external tier that caches the song before inserting it.
FromIdBoomlings_InsertAfterCache(c, db, song_id, body, log) ==
    LET b == SongFromBoomlings(body)
        l == Append(log, "post_request")
    IN  IF b.kind = "song"
        THEN LET ins == SongInsert(db, b.song)
             IN  Outcome(CachePut(c, b.song.id, b.song), ins.db,
                         SongResult(ins.song),
                         l \o <<"cache.cache", "sql.execute">>)
        ELSE Outcome(c, db, b, l)

\* A variant of the external tier that caches the song under the id it had
\* before Song.insert.
FromIdBoomlings_KeyBeforeInsert(c, db, song_id, body, log) ==
    LET b == SongFromBoomlings(body)
        l == Append(log, "post_request")
    IN  IF b.kind = "song"
        THEN LET ins == SongInsert(db, b.song)
             IN  Outcome(CachePut(c, b.song.id, ins.song), ins.db,
                         SongResult(ins.song),
                         l \o <<"sql.execute", "cache.cache">>)
        ELSE Outcome(c, db, b, l)

\* A variant of the external tier that asks again after an invalid answer.
FromIdBoomlings_Retry(c, db, song_id, body, log) ==
    LET b == SongFromBoomlings(body)
        l == Append(log, "post_request")
    IN  IF b.kind = "song"
        THEN LET ins == SongInsert(db, b.song)
             IN  Outcome(CachePut(c, ins.song.id, ins.song), ins.db,
                         SongResult(ins.song),
                         l \o <<"sql.execute", "cache.cache">>)
        ELSE Outcome(c, db, b, Append(l, "post_request"))

\* Song.from_id, the external tier (cache and store missed), `log` being the
\* collaborator calls made so far.
FromIdBoomlings(c, db, song_id, body, log) ==
    LET b == SongFromBoomlings(body)
        l == Append(log, "post_request")
    IN  IF b.kind = "song"
        THEN LET ins == SongInsert(db, b.song)
             IN  Outcome(CachePut(c, ins.song.id, ins.song), ins.db,
                         SongResult(ins.song),
                         l \o <<"sql.execute", "cache.cache">>)
        ELSE Outcome(c, db, b, l)

\* A variant of the store tier that does not cache what it fetched.
FromIdSql_NoBackfill(c, db, song_id, body, log) ==
    LET q == SongFromSql(db, song_id)
        l == Append(log, "sql.fetchone")
    IN  IF q.found
        THEN Outcome(c, db, SongResult(q.song), l)
        ELSE FromIdBoomlings(c, db, song_id, body, l)

\* Song.from_id, the store tier (cache missed).
FromIdSql(c, db, song_id, body, log) ==
    LET q == SongFromSql(db, song_id)
        l == Append(log, "sql.fetchone")
    IN  IF q.found
        THEN Outcome(CachePut(c, q.song.id, q.song), db, SongResult(q.song),
                     Append(l, "cache.cache"))
        ELSE FromIdBoomlings(c, db, song_id, body, l)

\* A variant of the cache tier that goes to the store whatever the cache holds.
FromIdCache_Skipped(c, db, song_id, body) ==
    FromIdSql(c, db, song_id, body, <<"cache.get">>)

\* Song.from_id, the cache tier (the id is truthy).
FromIdCache(c, db, song_id, body) ==
    IF CacheHas(c, song_id)
    THEN Outcome(c, db, SongResult(c[song_id]), <<"cache.get">>)
    ELSE FromIdSql(c, db, song_id, body, <<"cache.get">>)

\* A variant of Song.from_id that looks a falsy id up like any other.
SongFromId_NoShortcut(c, db, song_id, body) ==
    FromIdCache(c, db, song_id, body)

\* Song.from_id: `body` is what the Boomlings API answers if it is asked.
SongFromId(c, db, song_id, body) ==
    IF song_id = 0
    THEN Outcome(c, db, SongResult(EmptySong), <<>>)
    ELSE FromIdCache(c, db, song_id, body)

\* ------------------------------------------------------------ Level object

\* The `song` attribute of a Level: a Song, None, or the coroutine object of
\* a Song.from_id(arg) call that nobody awaited.
SongObj(s) == [kind |-> "song", song |-> s, arg |-> 0]
SongNone == [kind |-> "none", song |-> EmptySong, arg |-> 0]
SongCoroutine(song_id) == [kind |-> "coroutine", song |-> EmptySong, arg |-> song_id]

ExtraStr ==
    "0_0_0_0_0_0_0_0_0_0_0_0_0_0_0_0_0_0_0_0_0_0_0_0_0_0_0_0_0_0_0_0_0_0_0_0_0_0_0_0_0_0_0_0_0_0_0_0_0_0_0_0_0_0_0"

\* Level.__init__: the placeholder attributes.
EmptyLevel ==
    [id |-> 0, name |-> "", creator |-> [id |-> 0], comments |-> <<>>,
     description |-> "", song |-> SongObj(EmptySong), track_id |-> 0,
     level_version |-> 0, length |-> 0, dual |-> FALSE, unlisted |-> FALSE,
     extra_str |-> ExtraStr, replay |-> "", game_version |-> 22,
     binary_version |-> 35, timestamp |-> 0, likes |-> 0, downloads |-> 0,
     stars |-> 0, difficulty |-> "NA", demon_diff |-> 0, coins |-> 0,
     coins_verified |-> FALSE, requested_stars |-> 0, feature_id |-> 0,
     rate_status |-> 0, ldm |-> FALSE, objects |-> 0, password |-> 0,
     working_time |-> 0, _cache |-> ""]

\* int(b) of a bool.
BoolInt(b) == IF b THEN 1 ELSE 0

\* The row Level.insert writes: the 19 columns it names, the id left to the
\* store, and the table's defaults in the columns it does not name.
InsertedRow(l, timestamp) ==
    [id |-> 0, name |-> l.name, user_id |-> l.creator.id,
     description |-> l.description, song_id |-> l.song.song.id,
     extra_str |-> "", replay |-> l.replay, game_version |-> l.game_version,
     binary_version |-> l.binary_version, timestamp |-> timestamp,
     downloads |-> 0, likes |-> 0, stars |-> 0, difficulty |-> "NA",
     demon_diff |-> 0, coins |-> l.coins, coins_verified |-> FALSE,
     requested_stars |-> l.requested_stars, featured_id |-> 0,
     rate_status |-> 0, ldm |-> BoolInt(l.ldm), objects |-> l.objects,
     password |-> l.password, working_time |-> l.working_time,
     level_ver |-> l.level_version, track_id |-> l.track_id,
     length |-> l.length, duals |-> BoolInt(l.dual),
     unlisted |-> BoolInt(l.unlisted)]

\* User.from_id: the user object of an id.
UserFromId(user_id) == [id |-> user_id]

\* What a run of a Level method leaves behind: the Level objects, the rows of
\* `levels`, the song tiers, the result, the collaborator calls in order and
\* the object a classmethod built for itself.
LevelOutcome(h, ldb, sc, sdb, result, log, local) ==
    [heap |-> h, level_db |-> ldb, song_cache |-> sc, song_db |-> sdb,
     result |-> result, log |-> log, local |-> local]

\* Level.from_sql, the assignments from the row r; `song` is what the
\* nested Song.from_id returned.
LevelFromRow(r, song) ==
    [EmptyLevel EXCEPT
        !.id = r.id, !.name = r.name, !.description = r.description,
        !.extra_str = r.extra_str, !.replay = r.replay,
        !.game_version = r.game_version,
        !.binary_version = r.binary_version, !.timestamp = r.timestamp,
        !.downloads = r.downloads, !.likes = r.likes, !.stars = r.stars,
        !.difficulty = r.difficulty, !.demon_diff = r.demon_diff,
        !.coins = r.coins, !.coins_verified = r.coins_verified,
        !.requested_stars = r.requested_stars, !.feature_id = r.featured_id,
        !.rate_status = r.rate_status, !.ldm = r.ldm, !.objects = r.objects,
        !.password = r.password, !.working_time = r.working_time,
        !.level_version = r.level_ver, !.track_id = r.track_id,
        !.length = r.length, !.dual = r.duals, !.unlisted = r.unlisted,
        !.creator = UserFromId(r.user_id),
        !.song = IF song.kind = "song" THEN SongObj(song.song) ELSE SongNone]

\* Level.from_sql after its row r was fetched, s being the run of the nested
\* Song.from_id(r.song_id): the object it populates is local to it and the
\* method ends without a return statement.
LevelFromSqlFound(h, ldb, r, s) ==
    IF s.result.kind = "raise"
    THEN LevelOutcome(h, ldb, s.cache, s.db, s.result,
                      <<"sql.fetchone", "User.from_id">> \o s.log,
                      LevelFromRow(r, s.result))
    ELSE LevelOutcome(h, ldb, s.cache, s.db, NoResult,
                      <<"sql.fetchone", "User.from_id">> \o s.log
                          \o <<"_fetch_comments">>,
                      LevelFromRow(r, s.result))

\* Level.from_sql(level_id, True), run to its end.
LevelFromSql(h, ldb, sc, sdb, level_id, body) ==
    IF ~SqlHas(ldb, level_id)
    THEN LevelOutcome(h, ldb, sc, sdb, NoResult, <<"sql.fetchone">>, EmptyLevel)
    ELSE LevelFromSqlFound(h, ldb, SqlFetchOne(ldb, level_id),
            SongFromId(sc, sdb, SqlFetchOne(ldb, level_id).song_id, body))

\* Level.from_id: the cached object, or the coroutine object of the
\* Level.from_sql call it makes and does not await.
LevelFromId(lc, level_id) ==
    IF CacheHas(lc, level_id)
    THEN [result |-> LevelResult(lc[level_id]), log |-> <<"cache.get">>]
    ELSE [result |-> CoroutineResult, log |-> <<"cache.get">>]

\* A variant of Level.insert that does not look at the id first.
LevelInsert_NoGuard(h, ldb, i, timestamp) ==
    LET r == SqlInsert(ldb, InsertedRow(h[i], timestamp), TRUE)
    IN  [heap |-> [h EXCEPT ![i].id = r.lastrowid], level_db |-> r.db,
         result |-> NoResult, log |-> <<"sql.execute">>]

\* Level.insert on the object h[i]; the values of the INSERT are evaluated
\* (self.song.id among them) before the statement is executed.
LevelInsert(h, ldb, i, timestamp) ==
    IF h[i].id # 0
    THEN [heap |-> h, level_db |-> ldb, result |-> Raised("FileExistsError"),
          log |-> <<>>]
    ELSE IF h[i].song.kind # "song"
    THEN [heap |-> h, level_db |-> ldb, result |-> Raised("AttributeError"),
          log |-> <<>>]
    ELSE LET r == SqlInsert(ldb, InsertedRow(h[i], timestamp), TRUE)
         IN  [heap |-> [h EXCEPT ![i].id = r.lastrowid], level_db |-> r.db,
              result |-> NoResult, log |-> <<"sql.execute">>]

\* ------------------------------------------------------ the level payload

MAX_CACHE_SIZE == 5000

\* The level strings written and read: each name stands for a str of
\* Chars(name) ASCII characters.
Payloads == {"", "a", "edge", "big"}

Chars(s) ==
    CASE s = "" -> 0
      [] s = "a" -> 1
      [] s = "edge" -> 4951
      [] s = "big" -> 4952

\* sys.getsizeof of an ASCII str (64-bit CPython before 3.12): the object
\* header and the terminating NUL take 49 bytes.
GetSizeOf(s) == 49 + Chars(s)

\* Level.path: the file of the level's id if os.path.exists finds it, which
\* it does not while the directory cannot be reached.
PathExists(h, i, f, ok) == ok /\ CacheHas(f, h[i].id)

\* A variant of Level.load that caches whatever it read.
LevelLoad_AlwaysCache(h, i, f, ok) ==
    IF h[i]._cache # ""
    THEN [heap |-> h, result |-> StrResult(h[i]._cache), log |-> <<>>]
    ELSE IF ~PathExists(h, i, f, ok)
    THEN [heap |-> h, result |-> NoResult, log |-> <<"path.exists">>]
    ELSE [heap |-> [h EXCEPT ![i]._cache = f[h[i].id]],
          result |-> StrResult(f[h[i].id]),
          log |-> <<"path.exists", "file.read">>]

\* Level.load on the object h[i], f being the files of conf.dir_levels.
LevelLoad(h, i, f, ok) ==
    IF h[i]._cache # ""
    THEN [heap |-> h, result |-> StrResult(h[i]._cache), log |-> <<>>]
    ELSE IF ~PathExists(h, i, f, ok)
    THEN [heap |-> h, result |-> NoResult, log |-> <<"path.exists">>]
    ELSE [heap |-> IF GetSizeOf(f[h[i].id]) <= MAX_CACHE_SIZE
                   THEN [h EXCEPT ![i]._cache = f[h[i].id]]
                   ELSE h,
          result |-> StrResult(f[h[i].id]),
          log |-> <<"path.exists", "file.read">>]

\* open(path, "w+") and f.write(contents): the file is replaced, or OSError
\* is raised and the file is as it was.
FileWrite(h1, f, ok, id, contents) ==
    IF ok
    THEN [heap |-> h1, files |-> CachePut(f, id, contents),
          result |-> NoResult, log |-> <<"file.write">>]
    ELSE [heap |-> h1, files |-> f, result |-> Raised("OSError"),
          log |-> <<"file.write">>]

\* A variant of Level.write that leaves the instance cache alone.
LevelWrite_NoCache(h, i, f, ok, contents) ==
    FileWrite(h, f, ok, h[i].id, contents)

\* Level.write(contents) on the object h[i]: the cache is set first, then
\* the file of the level's id is opened and written.
LevelWrite(h, i, f, ok, contents) ==
    FileWrite(IF GetSizeOf(contents) <= MAX_CACHE_SIZE
              THEN [h EXCEPT ![i]._cache = contents]
              ELSE h,
              f, ok, h[i].id, contents)

\* Level.cache on the object h[i].
LevelCache(lc, h, i) == CachePut(lc, h[i].id, i)

\* The keyword arguments of Level.update that are read with the attribute's
\* own value as the default, in the order of their assignments.
PlainKeys ==
    <<"name", "desc", "version", "length", "ldm", "coins", "verified_coins",
      "dual", "password", "objects", "work_time", "unlisted", "game_version",
      "binary_version">>

\* The value a caller passes for a key, made from the number v.
KwVal(key, v) ==
    IF key \in {"name", "desc"} THEN (IF v = 0 THEN "" ELSE IntStr(v))
    ELSE IF key \in {"ldm", "verified_coins", "dual", "unlisted"} THEN v % 2 = 1
    ELSE v

\* kwargs.get(key, default), kwargs being the keys K with the values of v.
KwGet(K, v, key, default) == IF key \in K THEN KwVal(key, v) ELSE default

\* A variant of Level.update that checks the id after its first assignment.
LevelUpdate_LateCheck(h, i, K, v) ==
    IF h[i].id = 0
    THEN [heap |-> [h EXCEPT ![i].track_id = KwGet(K, v, "track_id", 0)],
          result |-> Raised("FileNotFoundError"), log |-> <<>>]
    ELSE [heap |-> h, result |-> NoResult, log |-> <<>>]

\* Level.update(**kwargs) on the object h[i]: no statement of it reaches the
\* store.
LevelUpdate(h, i, K, v) ==
    IF h[i].id = 0
    THEN [heap |-> h, result |-> Raised("FileNotFoundError"), log |-> <<>>]
    ELSE
        LET l0 == h[i]
            l1 == IF KwGet(K, v, "song_id", 0) # 0
                  THEN [l0 EXCEPT
                           !.song = SongCoroutine(KwVal("song_id", v)),
                           !.track_id = 0]
                  ELSE [l0 EXCEPT !.track_id = KwGet(K, v, "track_id", 0)]
            l2 == [l1 EXCEPT
                      !.name = KwGet(K, v, "name", l1.name),
                      !.description = KwGet(K, v, "desc", l1.description),
                      !.level_version = KwGet(K, v, "version", l1.level_version),
                      !.length = KwGet(K, v, "length", l1.length),
                      !.ldm = KwGet(K, v, "ldm", l1.ldm),
                      !.coins = KwGet(K, v, "coins", l1.coins),
                      !.coins_verified =
                          KwGet(K, v, "verified_coins", l1.coins_verified),
                      !.dual = KwGet(K, v, "dual", l1.dual),
                      !.password = KwGet(K, v, "password", l1.password),
                      !.objects = KwGet(K, v, "objects", l1.objects),
                      !.working_time = KwGet(K, v, "work_time", l1.working_time),
                      !.unlisted = KwGet(K, v, "unlisted", l1.unlisted),
                      !.game_version = KwGet(K, v, "game_version", l1.game_version),
                      !.binary_version =
                          KwGet(K, v, "binary_version", l1.binary_version)]
            l3 == [l2 EXCEPT !.track_id = KwGet(K, v, "track_id", l2.track_id)]
        IN  [heap |-> [h EXCEPT ![i] = l3], result |-> NoResult, log |-> <<>>]

\* ------------------------------------------------------------------ state

EmptyCache == [k \in {} |-> 0]

\* The state a call starts from.
Pre ==
    [song_cache |-> song_cache, song_db |-> song_db,
     level_cache |-> level_cache, level_db |-> level_db, heap |-> heap,
     files |-> files, disk_ok |-> disk_ok]

\* The record of a call: the method, its integer argument, the Level object
\* it ran on, the Boomlings answer it read, its keyword arguments, and what
\* it returned and did.
CallRecord(op, arg, obj, body, keys, val, result, log, local) ==
    [op |-> op, arg |-> arg, obj |-> obj, body |-> body, keys |-> keys,
     val |-> val, result |-> result, log |-> log, local |-> local, pre |-> Pre]

NoCall == CallRecord("none", 0, 0, <<>>, {}, 0, NoResult, <<>>, EmptyLevel)

Summary(c) ==
    [op |-> c.op, arg |-> c.arg, obj |-> c.obj, kind |-> c.result.kind,
     exc |-> c.result.exc, str |-> c.result.str, log |-> c.log]

\* The `songs` tables a run may start with: at most one row per id, in id order.
StoredSongs == {SongRow(i, t) : i \in 1 .. MaxSongId, t \in Titles}

InitialSongDbs ==
    {db \in UNION {[1 .. n -> StoredSongs] : n \in 0 .. MaxSongId} :
        \A i \in 1 .. Len(db) - 1 : db[i].id < db[i + 1].id}

\* The two tasks the concurrent specifications run.
Tasks == {1, 2}

\* A task that is not running: `pc` is the await it is suspended at, `song`
\* and `row` the values it holds across that await, `found` and `lastrowid`
\* what the store answered, `pre` the state it started from.
IdleTask ==
    [pc |-> "idle", op |-> "none", arg |-> 0, obj |-> 0, body |-> <<>>,
     song |-> EmptySong, row |-> InsertedRow(EmptyLevel, 0), found |-> FALSE,
     lastrowid |-> 0, log |-> <<>>, result |-> NoResult,
     pre |-> [song_cache |-> EmptyCache, song_db |-> <<>>,
              level_cache |-> EmptyCache, level_db |-> <<>>, heap |-> <<>>,
              files |-> EmptyCache, disk_ok |-> TRUE]]

\* The record of the call a task has finished.
TaskCall(tk) ==
    [op |-> tk.op, arg |-> tk.arg, obj |-> tk.obj, body |-> tk.body,
     keys |-> {}, val |-> 0, result |-> tk.result, log |-> tk.log,
     local |-> EmptyLevel, pre |-> tk.pre]

\* The state after start-up: empty caches, the `songs` table sdb, the
\* `levels` table ldb, the Level objects h, the payload files f, and no call
\* made yet.
InitState(h, sdb, ldb, f) ==
    /\ heap = h
    /\ song_cache = EmptyCache
    /\ song_db = sdb
    /\ level_cache = EmptyCache
    /\ level_db = ldb
    /\ files = f
    /\ disk_ok = TRUE
    /\ tasks = [t \in Tasks |-> IdleTask]
    /\ written = [i \in 1 .. Len(h) |-> <<>>]
    /\ call = NoCall
    /\ prev = Summary(NoCall)

\* The same with no Level row and no payload file.
InitWith(h, sdb) == InitState(h, sdb, <<>>, EmptyCache)

\* --------------------------------------------------------- the song resolver

\* One call of Song.from_id(song_id); the Boomlings API would answer `body`.
ResolveSong(song_id, body) ==
    LET o == SongFromId(song_cache, song_db, song_id, body)
        asked == \E i \in 1 .. Len(o.log) : o.log[i] = "post_request"
    IN  /\ song_cache' = o.cache
        /\ song_db' = o.db
        /\ call' = CallRecord("Song.from_id", song_id, 0,
                              IF asked THEN body ELSE <<>>, {}, 0,
                              o.result, o.log, EmptyLevel)
        /\ prev' = Summary(call)
        /\ UNCHANGED <<files, disk_ok, tasks, written, level_cache, level_db, heap>>

Init == \E sdb \in InitialSongDbs : InitWith(<<>>, sdb)

Next ==
    \E song_id \in 0 .. MaxSongId : \E body \in Bodies(song_id) :
        ResolveSong(song_id, body)

Spec == Init /\ [][Next]_vars

\* ------------------------------------------------------- the level resolver

Timestamps == {100}

\* Level() and the attributes a caller sets on it before it is inserted.
NewLevel(s, track_id) ==
    /\ Len(heap) < MaxLevels
    /\ heap' = Append(heap, [EmptyLevel EXCEPT !.name = "a",
                                !.song = SongObj(s), !.track_id = track_id])
    /\ call' = CallRecord("Level", 0, Len(heap) + 1, <<>>, {}, 0,
                          LevelResult(Len(heap) + 1), <<>>, EmptyLevel)
    /\ prev' = Summary(call)
    /\ UNCHANGED <<files, disk_ok, tasks, written, song_cache, song_db, level_cache, level_db>>

\* One call of Level.insert on the object heap[i].
DoLevelInsert(i, timestamp) ==
    LET o == LevelInsert(heap, level_db, i, timestamp)
    IN  /\ heap' = o.heap
        /\ level_db' = o.level_db
        /\ call' = CallRecord("Level.insert", 0, i, <<>>, {}, 0,
                              o.result, o.log, EmptyLevel)
        /\ prev' = Summary(call)
        /\ UNCHANGED <<files, disk_ok, tasks, written, song_cache, song_db, level_cache>>

\* One call of Level.cache on the object heap[i].
DoLevelCache(i) ==
    /\ level_cache' = LevelCache(level_cache, heap, i)
    /\ call' = CallRecord("Level.cache", 0, i, <<>>, {}, 0,
                          NoResult, <<"cache.cache">>, EmptyLevel)
    /\ prev' = Summary(call)
    /\ UNCHANGED <<files, disk_ok, tasks, written, song_cache, song_db, level_db, heap>>

\* One call of Level.from_id(level_id).
DoLevelFromId(level_id) ==
    LET o == LevelFromId(level_cache, level_id)
    IN  /\ call' = CallRecord("Level.from_id", level_id, 0, <<>>, {}, 0,
                              o.result, o.log, EmptyLevel)
        /\ prev' = Summary(call)
        /\ UNCHANGED <<files, disk_ok, tasks, written, song_cache, song_db, level_cache, level_db, heap>>

\* The awaited Level.from_sql call ended as o.
AwaitReturns(o, body) ==
    /\ song_cache' = o.song_cache
    /\ song_db' = o.song_db
    /\ call' = CallRecord("await Level.from_sql", call.arg, 0,
                          IF \E i \in 1 .. Len(o.log) : o.log[i] = "post_request"
                          THEN body ELSE <<>>,
                          {}, 0, o.result, o.log, o.local)
    /\ prev' = Summary(call)
    /\ UNCHANGED <<files, disk_ok, tasks, written, level_cache, level_db, heap>>

\* The caller awaits the coroutine object Level.from_id handed back: the
\* Level.from_sql call runs to its end.
AwaitFromSql(body) ==
    /\ call.op = "Level.from_id"
    /\ call.result.kind = "coroutine"
    /\ AwaitReturns(LevelFromSql(heap, level_db, song_cache, song_db,
                                 call.arg, body), body)

\* The song id in the row of a level, 0 when there is no row.
RowSongId(ldb, level_id) ==
    IF SqlHas(ldb, level_id) THEN SqlFetchOne(ldb, level_id).song_id ELSE 0

InitLevel == \E sdb \in {<<>>, <<SongRow(1, "a")>>} : InitWith(<<>>, sdb)

NextLevel ==
    \/ \E s \in {EmptySong, SongRow(1, "a")} : \E t \in {0, 1} :
          NewLevel(s, IF s = EmptySong THEN t ELSE 0)
    \/ \E i \in 1 .. Len(heap) : \E ts \in Timestamps : DoLevelInsert(i, ts)
    \/ \E i \in 1 .. Len(heap) : DoLevelCache(i)
    \/ \E level_id \in 0 .. MaxLevelId : DoLevelFromId(level_id)
    \/ \E body \in Bodies(RowSongId(level_db, call.arg)) : AwaitFromSql(body)

SpecLevel == InitLevel /\ [][NextLevel]_vars

\* ------------------------------------------------------------- Level.update

\* The keys a caller of Level.update passes.
OfferedKeys ==
    {"song_id", "track_id"} \cup {PlainKeys[n] : n \in 1 .. MaxPlainTried}

\* One call of Level.update(**kwargs) on the object heap[i], kwargs having
\* the keys K with the values made from v.
DoLevelUpdate(i, K, v) ==
    LET o == LevelUpdate(heap, i, K, v)
    IN  /\ heap' = o.heap
        /\ call' = CallRecord("Level.update", 0, i, <<>>, K, v,
                              o.result, o.log, EmptyLevel)
        /\ prev' = Summary(call)
        /\ UNCHANGED <<files, disk_ok, tasks, written, song_cache, song_db, level_cache, level_db>>

\* The Level named "a", and the row Level.insert wrote for it with the id 1.
LevelA == [EmptyLevel EXCEPT !.name = "a"]
RowA == [InsertedRow(LevelA, 100) EXCEPT !.id = 1]

\* A Level that was never inserted, or one that insert gave the id 1.
InitUpdate ==
    \/ InitWith(<<LevelA>>, <<>>)
    \/ InitState(<<[LevelA EXCEPT !.id = 1]>>, <<>>, <<RowA>>, EmptyCache)

NextUpdate ==
    \E K \in SUBSET OfferedKeys : \E v \in 0 .. MaxVal : DoLevelUpdate(1, K, v)

SpecUpdate == InitUpdate /\ [][NextUpdate]_vars

\* ------------------------------------------------------------------ claims

\* How often a call made the collaborator call e.
Count(log, e) == Cardinality({i \in 1 .. Len(log) : log[i] = e})

IsInsert(e) == e \in {"sql.execute", "cache.cache"}

\* The call c was a Song.from_id for a truthy id.
Resolved(c) == c.op = "Song.from_id" /\ c.arg # 0

\* ... that found the id in the song cache.
CacheHit(c) == Resolved(c) /\ CacheHas(c.pre.song_cache, c.arg)

\* ... that found the id in the store only.
StoreHit(c) ==
    /\ Resolved(c)
    /\ ~CacheHas(c.pre.song_cache, c.arg)
    /\ SqlHas(c.pre.song_db, c.arg)

\* ... that found the id in neither.
BothMissed(c) ==
    /\ Resolved(c)
    /\ ~CacheHas(c.pre.song_cache, c.arg)
    /\ ~SqlHas(c.pre.song_db, c.arg)

\* C1: a Song.from_id for a non-zero id that has an entry in the song cache
\* returns that entry and makes no store fetch, no store insert and no
\* request to the external catalog.
C1_CacheHitShortCircuits ==
    CacheHit(call) =>
        /\ call.result = SongResult(call.pre.song_cache[call.arg])
        /\ Count(call.log, "sql.fetchone") = 0
        /\ Count(call.log, "sql.execute") = 0
        /\ Count(call.log, "post_request") = 0
        /\ song_db = call.pre.song_db

C1_Witness == CacheHit(call) /\ call.result.kind = "song"

\* C2: a Song.from_id for an id that is in the store and not in the cache
\* returns the store's record, puts it in the cache under that id and never
\* asks the external catalog; and the Song.from_id for the same id that
\* follows a store hit makes the cache lookup only and returns that record.
C2_StoreHitBackfills ==
    /\ StoreHit(call) =>
          /\ call.result = SongResult(SqlFetchOne(call.pre.song_db, call.arg))
          /\ CacheHas(song_cache, call.arg)
          /\ song_cache[call.arg] = call.result.song
          /\ Count(call.log, "post_request") = 0
    /\ (/\ prev.op = "Song.from_id"
        /\ prev.kind = "song"
        /\ Count(prev.log, "sql.fetchone") = 1
        /\ Count(prev.log, "post_request") = 0
        /\ Resolved(call)
        /\ call.arg = prev.arg) =>
          /\ call.log = <<"cache.get">>
          /\ call.result = SongResult(SqlFetchOne(song_db, call.arg))

C2_Witness ==
    /\ prev.op = "Song.from_id"
    /\ prev.kind = "song"
    /\ Count(prev.log, "sql.fetchone") = 1
    /\ Resolved(call)
    /\ call.arg = prev.arg
    /\ call.log = <<"cache.get">>

\* The call c found its id in the external catalog only.
ExternalHit(c) ==
    BothMissed(c) /\ c.body \in {WellFormed(c.arg, t) : t \in Titles}

\* C3: when Song.from_id finds the id in the external catalog only (cache
\* miss, store miss, well-formed answer), it makes exactly one store insert
\* and exactly one cache insert, the store insert first, and both are done
\* when it returns the song: the store has one more row, which is the song
\* returned, and the cache holds the song returned.
C3_ExternalHitPersists ==
    ExternalHit(call) =>
        /\ call.result.kind = "song"
        /\ SelectSeq(call.log, IsInsert) = <<"sql.execute", "cache.cache">>
        /\ song_db = Append(call.pre.song_db, call.result.song)
        /\ CacheHas(song_cache, call.result.song.id)
        /\ song_cache[call.result.song.id] = call.result.song

C3_Witness == ExternalHit(call) /\ call.result.kind = "song"

\* C6: Song.from_id with a falsy id returns a placeholder Song (id -1, every
\* attribute at its default) and makes no cache lookup or insert, no store
\* fetch or insert and no request; cache and store are as they were.
C6_EmptySongShortcut ==
    (call.op = "Song.from_id" /\ call.arg = 0) =>
        /\ call.result = SongResult(EmptySong)
        /\ call.log = <<>>
        /\ song_cache = call.pre.song_cache
        /\ song_db = call.pre.song_db

C6_Witness ==
    /\ call.op = "Song.from_id"
    /\ call.arg = 0
    /\ call.result.kind = "song"
    /\ song_cache # EmptyCache

\* The call c missed cache and store and the catalog answered with an empty
\* or a numeric-only body.
ExternalMiss(c) ==
    /\ BothMissed(c)
    /\ Count(c.log, "post_request") > 0
    /\ c.body \in {<<>>, <<"-1">>}

\* C7: when the id is in neither cache nor store and the external catalog
\* answers with an empty or numeric-only body, Song.from_id returns None,
\* asked the catalog exactly once, made no store insert and no cache insert,
\* and left cache and store as they were.
C7_NotFound ==
    ExternalMiss(call) =>
        /\ call.result = NoResult
        /\ Count(call.log, "post_request") = 1
        /\ Count(call.log, "sql.execute") = 0
        /\ Count(call.log, "cache.cache") = 0
        /\ song_cache = call.pre.song_cache
        /\ song_db = call.pre.song_db

C7_Witness == ExternalMiss(call) /\ call.body = <<"-1">> /\ song_db # <<>>

\* The call c was a Level.from_id for an id the level cache did not hold,
\* or the await of what that call handed back.
LevelMiss(c) ==
    /\ c.op \in {"Level.from_id", "await Level.from_sql"}
    /\ ~CacheHas(c.pre.level_cache, c.arg)

\* C4: for an id absent from the level cache, Level.from_id yields a Level
\* populated from the store row (its id the one asked for, creator and song
\* resolved) when the store has the id, and None only when it has no row.
C4_LevelResolved ==
    LevelMiss(call) =>
        IF SqlHas(call.pre.level_db, call.arg)
        THEN /\ call.result.kind = "level"
             /\ heap[call.result.ref].id = call.arg
             /\ heap[call.result.ref].creator =
                    UserFromId(SqlFetchOne(call.pre.level_db, call.arg).user_id)
             /\ heap[call.result.ref].song.kind = "song"
        ELSE call.result = NoResult

\* C5: resolving a level id that is in the store only puts the Level in the
\* level cache under that id.
C5_LevelBackfilled ==
    (LevelMiss(call) /\ SqlHas(call.pre.level_db, call.arg)) =>
        /\ CacheHas(level_cache, call.arg)
        /\ heap[level_cache[call.arg]].id = call.arg

\* The Level the call ran on, before and after it.
Before == call.pre.heap[call.obj]
After == heap[call.obj]

\* The call was a Level.update that got past its check of the id.
Updated == call.op = "Level.update" /\ call.result.kind = "none"

SongIsDefault(l) == l.song = SongObj(EmptySong)

\* C8: after Level.update(song_id=s) or Level.update(track_id=t), s and t
\* non-zero, on a Level with an id, exactly one of the song and track_id is
\* non-default: setting the song leaves track_id 0 and setting track_id
\* leaves the default song.
C8_SongTrackExclusive ==
    (Updated /\ call.val # 0) =>
        /\ call.keys = {"song_id"} =>
              ~SongIsDefault(After) /\ After.track_id = 0
        /\ call.keys = {"track_id"} =>
              SongIsDefault(After) /\ After.track_id # 0

\* The attribute each plain keyword of Level.update names.
FieldOf(key) ==
    CASE key = "desc" -> "description"
      [] key = "version" -> "level_version"
      [] key = "verified_coins" -> "coins_verified"
      [] key = "work_time" -> "working_time"
      [] OTHER -> key

\* C9: Level.update leaves the attribute of every plain keyword it was not
\* given as it was, and an update given neither song_id nor track_id leaves
\* the song and track_id as they were.
C9_SparseUpdateFrame ==
    Updated =>
        /\ \A n \in 1 .. Len(PlainKeys) :
              PlainKeys[n] \notin call.keys =>
                  After[FieldOf(PlainKeys[n])] = Before[FieldOf(PlainKeys[n])]
        /\ call.keys \cap {"song_id", "track_id"} = {} =>
              After.song = Before.song /\ After.track_id = Before.track_id

\* C10: Level.insert on an object whose id is non-zero raises
\* FileExistsError, writes nothing to the store and leaves the id as it was;
\* so of two inserts in a row on one object only the first writes a row.
C10_InsertOnce ==
    /\ (call.op = "Level.insert" /\ Before.id # 0) =>
          /\ call.result = Raised("FileExistsError")
          /\ call.log = <<>>
          /\ level_db = call.pre.level_db
          /\ After.id = Before.id
    /\ (/\ call.op = "Level.insert"
        /\ prev.op = "Level.insert"
        /\ prev.kind = "none"
        /\ prev.obj = call.obj) =>
          /\ call.result.kind = "raise"
          /\ Count(prev.log, "sql.execute") + Count(call.log, "sql.execute") = 1

C10_Witness ==
    /\ call.op = "Level.insert"
    /\ prev.op = "Level.insert"
    /\ prev.kind = "none"
    /\ prev.obj = call.obj
    /\ call.result = Raised("FileExistsError")
    /\ Len(level_db) = 1

\* -------------------------------------------- the song resolver, await by await

\* The task is between the start of a call and its end.
Running(t) == tasks[t].pc \notin {"idle", "done", "cancelled"}

\* The task's call ends as tk says.
Finish(t, tk) ==
    /\ tasks' = [tasks EXCEPT ![t] = tk]
    /\ call' = TaskCall(tk)
    /\ prev' = Summary(call)

\* The task moves on to its next await.
Suspend(t, tk) ==
    /\ tasks' = [tasks EXCEPT ![t] = tk]
    /\ UNCHANGED <<call, prev>>

\* Song.from_id(song_id), song_id truthy, up to its first await: the cache
\* lookup, and on a miss the query of from_sql is sent.
SongStart(t, song_id) ==
    LET tk == [IdleTask EXCEPT !.op = "Song.from_id", !.arg = song_id,
                               !.log = <<"cache.get">>, !.pre = Pre]
    IN  /\ ~Running(t)
        /\ IF CacheHas(song_cache, song_id)
           THEN Finish(t, [tk EXCEPT !.pc = "done",
                              !.result = SongResult(song_cache[song_id])])
           ELSE Suspend(t, [tk EXCEPT !.pc = "fetchone"])
        /\ UNCHANGED <<song_cache, song_db, level_cache, level_db, heap,
                       files, disk_ok, written>>

\* The store evaluates the task's SELECT; the answer is on its way.
StoreFetches(t) ==
    LET q == SongFromSql(song_db, tasks[t].arg)
    IN  /\ tasks[t].pc = "fetchone"
        /\ tasks[t].op = "Song.from_id"
        /\ Suspend(t, [tasks[t] EXCEPT !.pc = "fetched", !.found = q.found,
                           !.song = q.song,
                           !.log = Append(@, "sql.fetchone")])
        /\ UNCHANGED <<song_cache, song_db, level_cache, level_db, heap,
                       files, disk_ok, written>>

\* A variant of the resumption after from_sql that does not cache the song.
FetchoneReturns_NoBackfill(t) ==
    LET tk == tasks[t]
    IN  /\ tk.pc = "fetched"
        /\ IF tk.found
           THEN Finish(t, [tk EXCEPT !.pc = "done",
                              !.result = SongResult(tk.song)])
           ELSE Suspend(t, [tk EXCEPT !.pc = "post"])
        /\ UNCHANGED <<song_cache, song_db, level_cache, level_db, heap,
                       files, disk_ok, written>>

\* The task resumes after `await cls.from_sql(song_id)`: a song found is
\* cached and returned, otherwise the request to Boomlings is sent.
FetchoneReturns(t) ==
    LET tk == tasks[t]
    IN  /\ tk.pc = "fetched"
        /\ IF tk.found
           THEN /\ song_cache' = CachePut(song_cache, tk.song.id, tk.song)
                /\ Finish(t, [tk EXCEPT !.pc = "done",
                                  !.result = SongResult(tk.song),
                                  !.log = Append(@, "cache.cache")])
           ELSE /\ song_cache' = song_cache
                /\ Suspend(t, [tk EXCEPT !.pc = "post"])
        /\ UNCHANGED <<song_db, level_cache, level_db, heap, files, disk_ok,
                       written>>

\* The task resumes after `await post_request(...)` with the answer `body`:
\* from_boomlings returns a Song, None or raises; for a Song, Song.insert
\* sends its INSERT.
PostReturns(t, body) ==
    LET tk == [tasks[t] EXCEPT !.body = body,
                               !.log = Append(@, "post_request")]
        b  == SongFromBoomlings(body)
    IN  /\ tasks[t].pc = "post"
        /\ IF b.kind = "song"
           THEN Suspend(t, [tk EXCEPT !.pc = "execute", !.song = b.song])
           ELSE Finish(t, [tk EXCEPT !.pc = "done", !.result = b])
        /\ UNCHANGED <<song_cache, song_db, level_cache, level_db, heap,
                       files, disk_ok, written>>

\* The store receives the task's INSERT INTO songs. A row with an id the
\* table already holds is stored as well or refused, as the table's keys
\* decide.
StoreExecutes(t) ==
    LET tk == tasks[t]
        r  == SongInsert(song_db, tk.song)
    IN  /\ tk.pc = "execute"
        /\ tk.op = "Song.from_id"
        /\ \E accept \in IF SqlHas(song_db, tk.song.id)
                          THEN BOOLEAN ELSE {TRUE} :
              /\ song_db' = IF accept THEN r.db ELSE song_db
              /\ Suspend(t, [tk EXCEPT
                                !.pc = IF accept THEN "executed"
                                       ELSE "refused",
                                !.lastrowid = r.song.id,
                                !.log = Append(@, "sql.execute")])
        /\ UNCHANGED <<song_cache, level_cache, level_db, heap, files,
                       disk_ok, written>>

\* A variant of the resumption after Song.insert that does not cache.
ExecuteReturns_NoCache(t) ==
    LET tk == tasks[t]
        s  == [tk.song EXCEPT !.id = tk.lastrowid]
    IN  /\ tk.pc \in {"executed", "refused"}
        /\ tk.op = "Song.from_id"
        /\ Finish(t, [tk EXCEPT !.pc = "done", !.song = s,
                          !.result = IF tk.pc = "executed"
                                     THEN SongResult(s)
                                     ELSE Raised("IntegrityError")])
        /\ UNCHANGED <<song_cache, song_db, level_cache, level_db, heap,
                       files, disk_ok, written>>

\* The task resumes after `await s.insert()`: the song gets the row id, is
\* cached and returned; a refused INSERT raises out of Song.from_id.
ExecuteReturns(t) ==
    LET tk == tasks[t]
        s  == [tk.song EXCEPT !.id = tk.lastrowid]
    IN  /\ tk.pc \in {"executed", "refused"}
        /\ tk.op = "Song.from_id"
        /\ IF tk.pc = "executed"
           THEN /\ song_cache' = CachePut(song_cache, s.id, s)
                /\ Finish(t, [tk EXCEPT !.pc = "done", !.song = s,
                                  !.result = SongResult(s),
                                  !.log = Append(@, "cache.cache")])
           ELSE /\ song_cache' = song_cache
                /\ Finish(t, [tk EXCEPT !.pc = "done",
                                  !.result = Raised("IntegrityError")])
        /\ UNCHANGED <<song_db, level_cache, level_db, heap, files, disk_ok,
                       written>>

\* The request the task serves is cancelled: CancelledError is raised at the
\* await the task is suspended at, and nothing of the call runs after it.
Cancel(t) ==
    /\ Running(t)
    /\ Finish(t, [tasks[t] EXCEPT !.pc = "cancelled",
                      !.result = Raised("CancelledError")])
    /\ UNCHANGED <<song_cache, song_db, level_cache, level_db, heap, files,
                   disk_ok, written>>

\* The song ids two concurrent tasks ask for, those one task asks for, and
\* the `songs` tables they start with.
TaskSongIds == {1}

SoloSongIds == {1, 2}

InitSongTasks ==
    \E sdb \in {<<>>, <<SongRow(1, "a")>>} : InitWith(<<>>, sdb)

\* Two tasks that resolve songs concurrently.
NextSongTasks ==
    \E t \in Tasks :
        \/ \E song_id \in TaskSongIds : SongStart(t, song_id)
        \/ StoreFetches(t)
        \/ FetchoneReturns(t)
        \/ \E body \in Bodies(tasks[t].arg) : PostReturns(t, body)
        \/ StoreExecutes(t)
        \/ ExecuteReturns(t)

SpecSongTasks == InitSongTasks /\ [][NextSongTasks]_vars

\* One task that resolves songs, one request after the other, and the
\* cancellation of a request.
NextSongSolo ==
    \/ \E song_id \in SoloSongIds : SongStart(1, song_id)
    \/ StoreFetches(1)
    \/ FetchoneReturns(1)
    \/ \E body \in Bodies(tasks[1].arg) : PostReturns(1, body)
    \/ StoreExecutes(1)
    \/ ExecuteReturns(1)
    \/ Cancel(1)

SpecSongSolo == InitSongTasks /\ [][NextSongSolo]_vars

\* What post_request may answer when nothing is assumed about the catalog:
\* the answers of Bodies, and the whole record of any song, whose id (key 1)
\* need not be the id asked for and may be the unassigned id -1.
AnyBodies(id) ==
    Bodies(id) \cup {WellFormed(y, "a") : y \in {-1} \cup SoloSongIds}

\* The resolver against such a catalog; a miss whose answer carries another
\* id inserts a row on every call, so calls stop at MaxSongRows rows.
NextAnyCatalog ==
    \E song_id \in SoloSongIds : \E body \in AnyBodies(song_id) :
        /\ Len(song_db) < MaxSongRows
        /\ ResolveSong(song_id, body)

SpecAnyCatalog == InitSongTasks /\ [][NextAnyCatalog]_vars

\* ------------------------------------------------ level payloads, call by call

\* One call of Level.load on the object heap[i].
DoLevelLoad(i) ==
    LET o == LevelLoad(heap, i, files, disk_ok)
    IN  /\ heap' = o.heap
        /\ call' = CallRecord("Level.load", 0, i, <<>>, {}, 0,
                              o.result, o.log, EmptyLevel)
        /\ prev' = Summary(call)
        /\ UNCHANGED <<files, disk_ok, tasks, written, song_cache, song_db,
                       level_cache, level_db>>

\* One call of Level.write(contents) on the object heap[i]; the record keeps
\* the contents as the result's str.
DoLevelWrite(i, contents) ==
    LET o == LevelWrite(heap, i, files, disk_ok, contents)
    IN  /\ heap' = o.heap
        /\ files' = o.files
        /\ written' = [written EXCEPT ![i] = <<contents>>]
        /\ call' = CallRecord("Level.write", 0, i, <<contents>>, {}, 0,
                              o.result, o.log, EmptyLevel)
        /\ prev' = Summary(call)
        /\ UNCHANGED <<disk_ok, tasks, song_cache, song_db, level_cache,
                       level_db>>

\* conf.dir_levels becomes unreachable, or reachable again.
DiskChanges ==
    /\ disk_ok' = ~disk_ok
    /\ UNCHANGED <<song_cache, song_db, level_cache, level_db, heap, files,
                   tasks, written, call, prev>>

\* A Level that was never inserted, or one that insert gave the id 1; no
\* payload file yet.
InitPayload ==
    \/ InitWith(<<LevelA>>, <<>>)
    \/ InitState(<<[LevelA EXCEPT !.id = 1]>>, <<>>, <<RowA>>, EmptyCache)

NextPayload ==
    \/ \E i \in 1 .. Len(heap) : DoLevelLoad(i)
    \/ \E i \in 1 .. Len(heap), c \in Payloads : DoLevelWrite(i, c)
    \/ DiskChanges

SpecPayload == InitPayload /\ [][NextPayload]_vars

\* ------------------------------------------------ Level.insert, await by await

\* Level.insert on the object heap[i] up to its await: the check of the id,
\* the timestamp and the values of the INSERT, which is sent.
InsertStart(t, i, timestamp) ==
    LET tk == [IdleTask EXCEPT !.op = "Level.insert", !.obj = i, !.pre = Pre]
    IN  /\ ~Running(t)
        /\ IF heap[i].id # 0
           THEN Finish(t, [tk EXCEPT !.pc = "done",
                              !.result = Raised("FileExistsError")])
           ELSE IF heap[i].song.kind # "song"
           THEN Finish(t, [tk EXCEPT !.pc = "done",
                              !.result = Raised("AttributeError")])
           ELSE Suspend(t, [tk EXCEPT !.pc = "execute",
                               !.row = InsertedRow(heap[i], timestamp)])
        /\ UNCHANGED <<song_cache, song_db, level_cache, level_db, heap,
                       files, disk_ok, written>>

\* The store performs the task's INSERT INTO levels and generates the id.
InsertStoreExecutes(t) ==
    LET r == SqlInsert(level_db, tasks[t].row, TRUE)
    IN  /\ tasks[t].pc = "execute"
        /\ tasks[t].op = "Level.insert"
        /\ level_db' = r.db
        /\ Suspend(t, [tasks[t] EXCEPT !.pc = "executed",
                           !.lastrowid = r.lastrowid,
                           !.log = Append(@, "sql.execute")])
        /\ UNCHANGED <<song_cache, song_db, level_cache, heap, files,
                       disk_ok, written>>

\* The task resumes after `await glob.sql.execute(...)`: self.id is assigned.
InsertReturns(t) ==
    /\ tasks[t].pc = "executed"
    /\ tasks[t].op = "Level.insert"
    /\ heap' = [heap EXCEPT ![tasks[t].obj].id = tasks[t].lastrowid]
    /\ Finish(t, [tasks[t] EXCEPT !.pc = "done"])
    /\ UNCHANGED <<song_cache, song_db, level_cache, level_db, files,
                   disk_ok, written>>

\* One Level, not inserted yet.
InitInsertTasks == InitWith(<<LevelA>>, <<>>)

\* Two tasks that call insert on the Level, and the calls of update, load
\* and write made in between.
NextInsertTasks ==
    \/ \E t \in Tasks, i \in 1 .. Len(heap), ts \in Timestamps :
           InsertStart(t, i, ts)
    \/ \E t \in Tasks : InsertStoreExecutes(t)
    \/ \E t \in Tasks : InsertReturns(t)
    \/ \E i \in 1 .. Len(heap), K \in {{}, {"name"}} : DoLevelUpdate(i, K, 1)
    \/ \E i \in 1 .. Len(heap) : DoLevelLoad(i)
    \/ \E i \in 1 .. Len(heap) : DoLevelWrite(i, "a")

SpecInsertTasks == InitInsertTasks /\ [][NextInsertTasks]_vars

\* ----------------------------------------------- level payloads, await by await

\* Level.load on the object heap[i] up to its first await: the cached
\* payload is returned, or None when os.path.exists finds no file, or the
\* file is being opened.
LoadStart(t, i) ==
    LET tk == [IdleTask EXCEPT !.op = "Level.load", !.obj = i, !.pre = Pre]
    IN  /\ ~Running(t)
        /\ IF heap[i]._cache # ""
           THEN Finish(t, [tk EXCEPT !.pc = "done",
                              !.result = StrResult(heap[i]._cache)])
           ELSE IF ~PathExists(heap, i, files, disk_ok)
           THEN Finish(t, [tk EXCEPT !.pc = "done",
                              !.log = <<"path.exists">>])
           ELSE Suspend(t, [tk EXCEPT !.pc = "read", !.arg = heap[i].id,
                               !.log = <<"path.exists">>])
        /\ UNCHANGED <<song_cache, song_db, level_cache, level_db, heap,
                       files, disk_ok, written>>

\* The file store performs the task's `await f.read()`: what the file holds
\* now is on its way to the task.
FileReads(t) ==
    /\ tasks[t].pc = "read"
    /\ Suspend(t, [tasks[t] EXCEPT !.pc = "read_done",
                       !.body = <<files[tasks[t].arg]>>,
                       !.log = Append(@, "file.read")])
    /\ UNCHANGED <<song_cache, song_db, level_cache, level_db, heap, files,
                   disk_ok, written>>

\* The task resumes after `await f.read()`: contents within the threshold
\* are cached, and the contents are returned.
LoadReturns(t) ==
    LET tk == tasks[t]
        contents == tk.body[1]
    IN  /\ tk.pc = "read_done"
        /\ heap' = IF GetSizeOf(contents) <= MAX_CACHE_SIZE
                   THEN [heap EXCEPT ![tk.obj]._cache = contents]
                   ELSE heap
        /\ Finish(t, [tk EXCEPT !.pc = "done",
                          !.result = StrResult(contents)])
        /\ UNCHANGED <<song_cache, song_db, level_cache, level_db, files,
                       disk_ok, written>>

\* Level.write(contents) on the object heap[i] up to its first await:
\* contents within the threshold are cached, and the file of the id the
\* object has now is being opened.
WriteStart(t, i, contents) ==
    /\ ~Running(t)
    /\ heap' = IF GetSizeOf(contents) <= MAX_CACHE_SIZE
               THEN [heap EXCEPT ![i]._cache = contents]
               ELSE heap
    /\ Suspend(t, [IdleTask EXCEPT !.op = "Level.write", !.obj = i,
                       !.arg = heap[i].id, !.body = <<contents>>,
                       !.pc = "open", !.pre = Pre])
    /\ UNCHANGED <<song_cache, song_db, level_cache, level_db, files,
                   disk_ok, written>>

\* The file store performs the task's open(path, "w+"): the file is created
\* or truncated.
FileOpens(t) ==
    /\ tasks[t].pc = "open"
    /\ files' = CachePut(files, tasks[t].arg, "")
    /\ Suspend(t, [tasks[t] EXCEPT !.pc = "write"])
    /\ UNCHANGED <<song_cache, song_db, level_cache, level_db, heap,
                   disk_ok, written>>

\* The file store performs the task's `await f.write(contents)`, after which
\* the call returns.
FileWrites(t) ==
    /\ tasks[t].pc = "write"
    /\ files' = CachePut(files, tasks[t].arg, tasks[t].body[1])
    /\ written' = [written EXCEPT ![tasks[t].obj] = tasks[t].body]
    /\ Finish(t, [tasks[t] EXCEPT !.pc = "done",
                      !.log = <<"file.write">>])
    /\ UNCHANGED <<song_cache, song_db, level_cache, level_db, heap,
                   disk_ok>>

\* A Level that insert gave the id 1; no payload file yet.
InitPayloadTasks ==
    InitState(<<[LevelA EXCEPT !.id = 1]>>, <<>>, <<RowA>>, EmptyCache)

\* The contents the two tasks write.
TaskPayloads == {"a", "edge", "big"}

\* Two tasks that call load and write on the Level.
NextPayloadTasks ==
    \E t \in Tasks :
        \/ \E i \in 1 .. Len(heap) : LoadStart(t, i)
        \/ FileReads(t)
        \/ LoadReturns(t)
        \/ \E i \in 1 .. Len(heap), c \in TaskPayloads : WriteStart(t, i, c)
        \/ FileOpens(t)
        \/ FileWrites(t)

SpecPayloadTasks == InitPayloadTasks /\ [][NextPayloadTasks]_vars

\* The contents the call handed to Level.write.
Contents(c) == c.body[1]

Small(s) == GetSizeOf(s) <= MAX_CACHE_SIZE

\* The call reached the Payload File Store.
TouchedFiles(c) == c.log # <<>>

\* C11: Level.update on an object whose id is 0 raises FileNotFoundError
\* before it changes anything: every attribute of the Level (song and
\* track_id among them) is as it was and no store operation was issued.
C11_UpdateNeedsId ==
    (call.op = "Level.update" /\ Before.id = 0) =>
        /\ call.result = Raised("FileNotFoundError")
        /\ heap = call.pre.heap
        /\ call.log = <<>>
        /\ level_db = call.pre.level_db

C11_Witness ==
    /\ call.op = "Level.update"
    /\ Before.id = 0
    /\ call.keys = {"song_id", "track_id", "name"}
    /\ call.val # 0
    /\ call.result.kind = "raise"

\* C15: a Level.update that got past its check and was given a change set
\* issues a store write, after which the row of the Level's id holds the
\* name and the description of the object.
C15_UpdatePersists ==
    (Updated /\ call.keys # {}) =>
        /\ Count(call.log, "sql.execute") >= 1
        /\ SqlHas(level_db, After.id)
        /\ SqlFetchOne(level_db, After.id).name = After.name
        /\ SqlFetchOne(level_db, After.id).description = After.description

\* The call c missed cache and store and the catalog answered with a body
\* that lacks required keys.
ExternalMalformed(c) ==
    BothMissed(c) /\ c.body \in {KeyIncomplete(c.arg, t) : t \in Titles}

\* C19: when the external catalog answers with a non-empty, non-numeric body
\* that lacks a required key, Song.from_id returns None, raises nothing and
\* makes no store or cache insert.
C19_MalformedAbsorbed ==
    ExternalMalformed(call) =>
        /\ call.result = NoResult
        /\ song_cache = call.pre.song_cache
        /\ song_db = call.pre.song_db

\* C12 as stated: after write(c) with a c of at most MAX_CACHE_SIZE and no
\* later write on the object, load returns c and does not touch the
\* Payload File Store, for every such c.
C12_SmallWriteServedFromCache ==
    (/\ call.op = "Level.load"
     /\ written[call.obj] # <<>>
     /\ Small(written[call.obj][1])) =>
        /\ call.result = StrResult(written[call.obj][1])
        /\ ~TouchedFiles(call)

\* C12, amended: the same for every non-empty such c, whether or not the
\* file store can be reached and whether or not the write reached it.
C12_NonEmptySmallWriteServedFromCache ==
    (/\ call.op = "Level.load"
     /\ written[call.obj] # <<>>
     /\ written[call.obj][1] # ""
     /\ Small(written[call.obj][1])) =>
        /\ call.result = StrResult(written[call.obj][1])
        /\ ~TouchedFiles(call)

\* A load after write("edge") failed on an unreachable directory, made while
\* the directory is still unreachable, and not the first load since.
C12_Witness ==
    /\ call.op = "Level.load"
    /\ prev.op = "Level.load"
    /\ written[call.obj] = <<"edge">>
    /\ ~call.pre.disk_ok
    /\ ~CacheHas(files, After.id)
    /\ call.result = StrResult("edge")

\* C13: a write of more than MAX_CACHE_SIZE leaves the instance cache empty
\* whatever it held, and the load after it reads the file store and returns
\* what was written.
C13_LargeWriteClearsCache ==
    /\ (call.op = "Level.write" /\ ~Small(Contents(call))) =>
           After._cache = ""
    /\ (/\ call.op = "Level.load"
        /\ prev.op = "Level.write"
        /\ written[call.obj] # <<>>
        /\ ~Small(written[call.obj][1])
        /\ call.pre.disk_ok
        /\ prev.kind = "none") =>
           /\ call.result = StrResult(written[call.obj][1])
           /\ Count(call.log, "file.read") = 1

\* C14: write on a Level whose id is 0 is rejected: it raises, writes no
\* file and leaves the instance cache as it was.
C14_WriteNeedsId ==
    (call.op = "Level.write" /\ Before.id = 0) =>
        /\ call.result.kind = "raise"
        /\ call.log = <<>>
        /\ files = call.pre.files
        /\ After._cache = Before._cache

\* C20: the instance cache is empty or holds at most MAX_CACHE_SIZE; a load
\* that read a larger payload returns it and leaves the cache empty, and the
\* load after it reads the file store again.
C20_SizeGate ==
    /\ \A i \in 1 .. Len(heap) :
           heap[i]._cache = "" \/ GetSizeOf(heap[i]._cache) <= MAX_CACHE_SIZE
    /\ (/\ call.op = "Level.load"
        /\ Count(call.log, "file.read") = 1
        /\ ~Small(call.pre.files[Before.id])) =>
           /\ call.result = StrResult(call.pre.files[Before.id])
           /\ After._cache = ""
    /\ (/\ call.op = "Level.load"
        /\ prev.op = "Level.load"
        /\ prev.kind = "str"
        /\ ~Small(prev.str)) =>
           /\ call.log[1] = "path.exists"
           /\ call.pre.disk_ok => call.log = <<"path.exists", "file.read">>

C20_Witness ==
    /\ call.op = "Level.load"
    /\ prev.op = "Level.load"
    /\ prev.str = "big"
    /\ call.result = StrResult("big")
    /\ call.log = <<"path.exists", "file.read">>
    /\ After._cache = ""

\* Both tasks have completed a Song.from_id(X) that started with X in
\* neither the cache nor the store, and the catalog answered every request
\* for X with the song's whole record.
ConcurrentMisses(X) ==
    \A t \in Tasks :
        /\ tasks[t].pc = "done"
        /\ tasks[t].op = "Song.from_id"
        /\ tasks[t].arg = X
        /\ ~CacheHas(tasks[t].pre.song_cache, X)
        /\ ~SqlHas(tasks[t].pre.song_db, X)
        /\ Count(tasks[t].log, "post_request") = 1 =>
               tasks[t].body \in {WellFormed(X, ti) : ti \in Titles}

\* The INSERTs the store received from the two tasks.
InsertsReceived ==
    Count(tasks[1].log, "sql.execute") + Count(tasks[2].log, "sql.execute")

RowsOf(db, id) == {i \in 1 .. Len(db) : db[i].id = id}

\* C16 as stated: two concurrent Song.from_id(X), X in the catalog only,
\* make the store receive at most one insert for X, and when both have
\* completed the cache entry of X equals the stored record of X.
C16_NoDuplicateInsert ==
    \A X \in TaskSongIds :
        ConcurrentMisses(X) =>
            /\ InsertsReceived <= 1
            /\ Cardinality(RowsOf(song_db, X)) = 1
            /\ CacheHas(song_cache, X)
            /\ song_cache[X] = SqlFetchOne(song_db, X)

\* C16, amended: each of the two resolutions sends at most one insert, so
\* the store receives one or two inserts for X and holds one or two rows of
\* X; when both have completed the cache has an entry for X, which equals a
\* stored row of X, and each resolution returned a stored row or raised the
\* store's refusal of its insert.
C16_OneInsertPerResolution ==
    \A X \in TaskSongIds :
        ConcurrentMisses(X) =>
            /\ \A t \in Tasks : Count(tasks[t].log, "sql.execute") <= 1
            /\ InsertsReceived \in {1, 2}
            /\ Cardinality(RowsOf(song_db, X)) \in 1 .. InsertsReceived
            /\ CacheHas(song_cache, X)
            /\ \E i \in RowsOf(song_db, X) : song_db[i] = song_cache[X]
            /\ \A t \in Tasks :
                   \/ /\ tasks[t].result.kind = "song"
                      /\ \E i \in RowsOf(song_db, X) :
                             song_db[i] = tasks[t].result.song
                   \/ /\ tasks[t].result = Raised("IntegrityError")
                      /\ InsertsReceived = 2

\* Both resolutions inserted: the store holds two rows of X with different
\* titles.
C16_Witness ==
    /\ ConcurrentMisses(1)
    /\ Cardinality(RowsOf(song_db, 1)) = 2
    /\ song_db[1] # song_db[2]
    /\ tasks[1].result.kind = "song"
    /\ tasks[2].result.kind = "song"

\* The call summarised by c was cancelled after the store had performed its
\* insert and before the cache insert.
CancelledAfterInsert(c) ==
    /\ c.op = "Song.from_id"
    /\ c.exc = "CancelledError"
    /\ Count(c.log, "sql.execute") = 1
    /\ Count(c.log, "cache.cache") = 0

\* C18: when a Song.from_id(X) is cancelled after its store insert was
\* performed and before its cache insert, the cache has no entry for X and
\* the store holds X; the next Song.from_id(X) that completes is served by
\* the store tier, with no request to the catalog and no second insert, and
\* leaves X in the cache.
C18_CancelLeavesStoreAuthoritative ==
    /\ (CancelledAfterInsert(Summary(call)) /\ tasks[1].pc = "cancelled") =>
           /\ ~CacheHas(song_cache, call.arg)
           /\ Cardinality(RowsOf(song_db, call.arg)) = 1
    /\ (/\ CancelledAfterInsert(prev)
        /\ call.op = "Song.from_id"
        /\ call.arg = prev.arg
        /\ call.result.exc # "CancelledError"
        /\ tasks[1].pc = "done") =>
           /\ call.log = <<"cache.get", "sql.fetchone", "cache.cache">>
           /\ call.result = SongResult(SqlFetchOne(song_db, call.arg))
           /\ song_db = call.pre.song_db
           /\ CacheHas(song_cache, call.arg)
           /\ song_cache[call.arg] = call.result.song

C18_Witness ==
    /\ CancelledAfterInsert(prev)
    /\ call.op = "Song.from_id"
    /\ call.arg = prev.arg
    /\ tasks[1].pc = "done"
    /\ call.result.kind = "song"
    /\ CacheHas(song_cache, call.arg)

\* C17: the id of a Level is assigned once. No step of insert, update,
\* load or write changes an id that is not 0, also when insert calls on the
\* same instance overlap at the store write, and the store performs at most
\* one INSERT per instance.
C17_IdAssignedOnce ==
    [][/\ \A i \in 1 .. Len(heap) :
              heap[i].id # 0 => heap'[i].id = heap[i].id
       /\ Len(level_db') <= Len(heap')]_vars

\* C21: whenever no load or write is in flight on a Level, a non-empty
\* instance cache equals the payload the file of the Level's id holds, so
\* that a load made then returns the payload of the last completed write.
C21_CacheFileCoherent ==
    (\A t \in Tasks : ~Running(t)) =>
        \A i \in 1 .. Len(heap) :
            heap[i]._cache # "" =>
                /\ CacheHas(files, heap[i].id)
                /\ files[heap[i].id] = heap[i]._cache
                /\ written[i] = <<heap[i]._cache>>

\* The call c returned a song it did not find in the cache.
ResolvedBelowCache(c) ==
    Resolved(c) /\ ~CacheHit(c) /\ c.result.kind = "song"

\* The id that the record of the catalog's answer carries.
RecordId(c) == StrInt(c.body[2])

====
